---- MODULE Spec2Model ----
(***************************************************************************)
(* A model of tiny-tfidf: Document / TextDocument / Stopwords / Corpus.    *)
(*                                                                         *)
(* A string is a sequence of one-character strings.  A JavaScript Map is   *)
(* a sequence of <<key, value>> pairs in insertion order.  A field that    *)
(* holds null or an object is a sequence of length 0 (null) or 1 (the      *)
(* object).  Weights are in thousandths: Math.log is the table LnTable     *)
(* and a division is an integer division.  A value of unknown type is a    *)
(* record with its typeof / class in the field type; a Document object the *)
(* caller holds also carries its address in the field ref.                 *)
(***************************************************************************)
EXTENDS Integers, Sequences, FiniteSets, TLC

\* ------------------------------------------------------------------ bounds
MaxDocs == 2

\* ------------------------------------------------------- program constants
DefaultK1 == 2
\* b = 0.75, kept in quarters
DefaultBQuarters == 3
DefaultTopTerms == 30
DefaultCommonTerms == 10

\* ------------------------------------------------------------ JS helpers
Null == <<>>
Some(x) == <<x>>

Min(a, b) == IF a < b THEN a ELSE b

\* Array.prototype.slice(0, n) for an integer n >= 0
Slice(arr, n) == SubSeq(arr, 1, Min(n, Len(arr)))

\* Array.prototype.map, built eagerly from left to right
ArrayMap(arr, F(_)) ==
  LET RECURSIVE Go(_)
      Go(i) == IF i = 0 THEN <<>> ELSE Append(Go(i - 1), F(arr[i]))
  IN Go(Len(arr))

\* Array.prototype.filter
Filter(arr, Keep(_)) == SelectSeq(arr, Keep)

\* Map.prototype.has / get / set / keys on an insertion-ordered Map
MapHas(m, k) == \E i \in 1..Len(m) : m[i][1] = k
MapIndex(m, k) == CHOOSE i \in 1..Len(m) : m[i][1] = k
MapGet(m, k) == m[MapIndex(m, k)][2]
MapSet(m, k, v) ==
  IF MapHas(m, k) THEN [m EXCEPT ![MapIndex(m, k)] = <<k, v>>]
  ELSE Append(m, <<k, v>>)
MapKeys(m) == ArrayMap(m, LAMBDA e : e[1])

\* Math.log(n) in thousandths, n = 1..8
LnTable == <<0, 693, 1099, 1386, 1609, 1792, 1946, 2079>>
MathLog(n) == LnTable[n]

\* Array.prototype.sort((a, b) => b[1] - a[1]): stable, descending by [2]
RECURSIVE InsertDesc(_, _)
InsertDesc(sorted, e) ==
  IF sorted = <<>> THEN <<e>>
  ELSE IF Head(sorted)[2] >= e[2] THEN <<Head(sorted)>> \o InsertDesc(Tail(sorted), e)
       ELSE <<e>> \o sorted
RECURSIVE SortDesc(_)
SortDesc(arr) ==
  IF arr = <<>> THEN <<>>
  ELSE InsertDesc(SortDesc(SubSeq(arr, 1, Len(arr) - 1)), arr[Len(arr)])

\* ------------------------------------------------------------- characters
LowerLetters == {"a", "b", "c", "d", "e", "f", "z"}
UpperLetters == {"A"}
Digits == {"1"}
\* the character class [a-zA-ZÀ-ÖØ-öø-ÿ]
IsLetter(c) == c \in LowerLetters \cup UpperLetters
\* String.prototype.toLowerCase, one character
CharToLower(c) == IF c = "A" THEN "a" ELSE c
toLowerCase(word) == ArrayMap(word, CharToLower)

\* ------------------------------------------------------------- Document
\* new Document(words)
Document(words) == [_words |-> words, _termFrequencies |-> Null]

\* as if every word were seen for the first time
_calculateTermFrequenciesOnes(words) ==
  LET RECURSIVE Go(_, _)
      Go(i, tfs) ==
        IF i > Len(words) THEN tfs
        ELSE Go(i + 1, MapSet(tfs, words[i], 1))
  IN Go(1, <<>>)

\* Document._calculateTermFrequencies: the Map it builds
_calculateTermFrequencies(words) ==
  LET RECURSIVE Go(_, _)
      Go(i, tfs) ==
        IF i > Len(words) THEN tfs
        ELSE IF MapHas(tfs, words[i])
             THEN Go(i + 1, MapSet(tfs, words[i], MapGet(tfs, words[i]) + 1))
             ELSE Go(i + 1, MapSet(tfs, words[i], 1))
  IN Go(1, <<>>)

\* the document after the lazy guard of getTermFrequency / getUniqueTerms
DocCached(doc) ==
  IF doc._termFrequencies = Null
  THEN [doc EXCEPT !._termFrequencies = Some(_calculateTermFrequencies(doc._words))]
  ELSE doc

\* Document.getTermFrequency: the value returned (doc already DocCached)
getTermFrequency(doc, term) ==
  IF MapHas(doc._termFrequencies[1], term) THEN MapGet(doc._termFrequencies[1], term)
  ELSE 0

\* Document.getLength: reads the token sequence and changes nothing
getLength(doc) == Len(doc._words)

\* Document.getUniqueTerms: the value returned (doc already DocCached)
getUniqueTerms(doc) == MapKeys(doc._termFrequencies[1])

\* ---------------------------------------------------------- TextDocument
\* String.prototype.match(/[a-zA-ZÀ-ÖØ-öø-ÿ]+/g): the maximal runs of
\* letters, left to right; no run at all is JavaScript's null, here <<>>
MatchLetters(text) ==
  LET RECURSIVE Go(_, _, _)
      Go(i, cur, acc) ==
        IF i > Len(text)
        THEN IF cur = <<>> THEN acc ELSE Append(acc, cur)
        ELSE IF IsLetter(text[i]) THEN Go(i + 1, Append(cur, text[i]), acc)
             ELSE IF cur = <<>> THEN Go(i + 1, cur, acc)
                  ELSE Go(i + 1, <<>>, Append(acc, cur))
  IN Go(1, <<>>, <<>>)

\* the filter callback of the TextDocument constructor
KeepWord(word) == ~(Len(word) < 2 \/ word[1] \in Digits)

\* new TextDocument(text): threw is TRUE when text.match(...) is null and
\* .filter is called on it (TypeError)
TextDocument(text) ==
  LET Build(runs) ==
        IF runs = <<>>
        THEN [threw |-> TRUE, doc |-> Document(<<>>)]
        ELSE [threw |-> FALSE,
              doc |-> Document(ArrayMap(Filter(runs, KeepWord), toLowerCase))]
  IN Build(MatchLetters(text))

\* a string value, and a Document object at address ref
StringValue(chars) == [type |-> "string", str |-> chars]
DocumentValue(ref, doc) == [type |-> "Document", ref |-> ref, doc |-> doc]

\* as if a Document were copied into a new object
TextDocumentFromCopy(textOrDocument, fresh) ==
  IF textOrDocument.type = "Document"
  THEN [threw |-> FALSE, made |-> 1, ref |-> fresh,
        doc |-> Document(textOrDocument.doc._words)]
  ELSE LET Made(td) == [threw |-> td.threw, made |-> 1, ref |-> fresh, doc |-> td.doc]
       IN Made(TextDocument(textOrDocument.str))

\* TextDocument.from(textOrDocument): the object returned, at its address;
\* fresh is the address a newly constructed object gets, made counts the
\* constructor calls
TextDocumentFrom(textOrDocument, fresh) ==
  IF textOrDocument.type = "Document"
  THEN [threw |-> FALSE, made |-> 0, ref |-> textOrDocument.ref,
        doc |-> textOrDocument.doc]
  ELSE LET Made(td) == [threw |-> td.threw, made |-> 1, ref |-> fresh, doc |-> td.doc]
       IN Made(TextDocument(textOrDocument.str))

\* ------------------------------------------------------------- Stopwords
\* A Stopwords object is its Set of terms.  The stopwords option of a
\* Corpus is undefined, an array of terms, or the Stopwords instance that
\* the module defaultStopwords exports.
ArrayValue(terms) == [type |-> "Array", terms |-> terms]
StopwordsValue(ref) == [type |-> "Stopwords", terms |-> <<>>, ref |-> ref]

\* new Stopwords(terms): a Set of the terms
Stopwords(terms) == {terms[i] : i \in 1..Len(terms)}
\* Stopwords.from(stopwordsOrTerms): ref names the object returned, "new"
\* for one just constructed, and stopwords is its Set; shared is the Set of
\* the exported instance
StopwordsFrom(stopwordsOrTerms, shared) ==
  IF stopwordsOrTerms.type = "undefined" THEN [ref |-> "new", stopwords |-> Stopwords(<<>>)]
  ELSE IF stopwordsOrTerms.type = "Stopwords"
       THEN [ref |-> stopwordsOrTerms.ref, stopwords |-> shared]
       ELSE [ref |-> "new", stopwords |-> Stopwords(stopwordsOrTerms.terms)]

\* as if the additional terms were added to the receiver itself
withInPlace(this, additionalStopwords) ==
  [this |-> this \cup Stopwords(additionalStopwords),
   value |-> this \cup Stopwords(additionalStopwords)]

\* Stopwords.with: this is the receiver afterwards, value the new object,
\* new Stopwords([...this._stopwords, ...additionalStopwords])
with(this, additionalStopwords) ==
  [this |-> this, value |-> this \cup Stopwords(additionalStopwords)]

\* Stopwords.includes
includes(stopwords, word) == word \in stopwords

\* ---------------------------------------------------------------- Corpus
\* A Corpus object `this` is a record of its fields.

defaultOptions ==
  [stopwords |-> ArrayValue(<<>>), K1 |-> DefaultK1, b |-> DefaultBQuarters]

\* new Map(documents) over the generator of fromKvps, which calls
\* TextDocument.from on each value: built counts the Documents constructed,
\* threw is TRUE when a TextDocument constructor raised, refs maps each
\* identifier to the address of the object stored under it
BuildDocuments(kvps) ==
  LET RECURSIVE Go(_, _, _, _)
      Put(i, map, refs, built, td) ==
        IF td.threw
        THEN [threw |-> TRUE, documents |-> map, refs |-> refs, built |-> built]
        ELSE Go(i + 1, MapSet(map, kvps[i][1], td.doc),
                MapSet(refs, kvps[i][1], td.ref), built + td.made)
      Go(i, map, refs, built) ==
        IF i > Len(kvps)
        THEN [threw |-> FALSE, documents |-> map, refs |-> refs, built |-> built]
        ELSE Put(i, map, refs, built,
                 TextDocumentFrom(kvps[i][2], <<"new", built + 1>>))
  IN Go(1, <<>>, <<>>, 0)

\* the Corpus constructor, given the Map of documents and the Set of the
\* exported Stopwords instance; the configuration is
\* { ...defaultOptions, ...options }
NewCorpus(documents, options, shared) ==
  [_stopwords |-> StopwordsFrom((options @@ defaultOptions).stopwords, shared).stopwords,
   _K1 |-> (options @@ defaultOptions).K1,
   _b |-> (options @@ defaultOptions).b,
   _documents |-> documents,
   _collectionFrequencies |-> Null,
   _collectionFrequencyWeights |-> Null,
   _documentVectors |-> Null]

\* names[i] of a JavaScript array: undefined past the end
ArrayAt(arr, i) == IF i \in 1..Len(arr) THEN arr[i] ELSE "undefined"

\* the generator toKvps of Corpus.from
FromToKvps(names, texts) ==
  LET RECURSIVE Go(_)
      Go(i) ==
        IF i = 0 THEN <<>>
        ELSE Append(Go(i - 1), <<ArrayAt(names, i), StringValue(texts[i])>>)
  IN Go(Len(texts))

\* as if the lengths were never compared
FromLengthCheckMissing(names, texts) == FALSE

\* the guard of Corpus.from
FromLengthCheck(names, texts) == Len(names) # Len(texts)

\* the forEach callback of _calculateCollectionFrequencies
CountTerm(cfs, term) ==
  IF MapHas(cfs, term) THEN MapSet(cfs, term, MapGet(cfs, term) + 1)
  ELSE MapSet(cfs, term, 1)

\* as if no term were filtered out
IsCountedAlways(stopwords, t) == TRUE

\* the filter callback of _calculateCollectionFrequencies
IsCounted(stopwords, t) == ~includes(stopwords, t)

\* Corpus._calculateCollectionFrequencies; getUniqueTerms fills each
\* document's own cache on the way
_calculateCollectionFrequencies(this) ==
  LET RECURSIVE Each(_, _)
      Each(terms, cfs) ==
        IF terms = <<>> THEN cfs
        ELSE Each(Tail(terms), CountTerm(cfs, Head(terms)))
      Count(cached) ==
        LET RECURSIVE Go(_, _)
            Go(i, cfs) ==
              IF i > Len(cached) THEN cfs
              ELSE Go(i + 1,
                      Each(Filter(getUniqueTerms(cached[i][2]),
                                  LAMBDA t : IsCounted(this._stopwords, t)), cfs))
        IN [this EXCEPT !._documents = cached,
                        !._collectionFrequencies = Some(Go(1, <<>>))]
  IN Count(ArrayMap(this._documents, LAMBDA e : <<e[1], DocCached(e[2])>>))

\* the lazy guard shared by getTerms and getCollectionFrequency
WithFrequencies(this) ==
  IF this._collectionFrequencies = Null THEN _calculateCollectionFrequencies(this)
  ELSE this

\* as in the cited paper, without the 1 added to N
IdfUnsmoothed(N, n) == MathLog(N) - MathLog(n)

\* as if the weight grew with the collection frequency
IdfInverted(N, n) == MathLog(n + 1) - MathLog(1)

\* Math.log(N + 1) - Math.log(n)
Idf(N, n) == MathLog(N + 1) - MathLog(n)

\* Corpus._calculateCollectionFrequencyWeights
_calculateCollectionFrequencyWeights(this) ==
  LET Weights(t1) ==
        [t1 EXCEPT !._collectionFrequencyWeights =
           Some(ArrayMap(t1._collectionFrequencies[1],
                         LAMBDA e : <<e[1], Idf(Len(t1._documents), e[2])>>))]
  IN Weights(WithFrequencies(this))

WithWeights(this) ==
  IF this._collectionFrequencyWeights = Null
  THEN _calculateCollectionFrequencyWeights(this)
  ELSE this

\* as if a single occurrence did not count
CombinedWeightFromSecond(idf, tf, K1, bq, len, N, total) ==
  IF tf > 1
  THEN (idf * tf * (K1 + 1) * 4 * total)
         \div (K1 * ((4 - bq) * total + bq * len * N) + 4 * tf * total)
  ELSE 0

\* the combined weight of _calculateDocumentVectors,
\*   tf ? (idf * tf * (K1 + 1)) / (K1 * (1 - b + b * ndl) + tf) : 0.0
\* with ndl = len / (total / N) and b = bq / 4; numerator and denominator
\* are both multiplied by 4 * total
CombinedWeight(idf, tf, K1, bq, len, N, total) ==
  IF tf # 0
  THEN (idf * tf * (K1 + 1) * 4 * total)
         \div (K1 * ((4 - bq) * total + bq * len * N) + 4 * tf * total)
  ELSE 0

\* Corpus._calculateDocumentVectors
_calculateDocumentVectors(this) ==
  LET TotalLength(docs) ==
        LET RECURSIVE Sum(_)
            Sum(i) == IF i = 0 THEN 0 ELSE Sum(i - 1) + getLength(docs[i][2])
        IN Sum(Len(docs))
      Vector(t1, doc, totalLength) ==
        ArrayMap(t1._collectionFrequencyWeights[1], LAMBDA e :
           <<e[1],
             CombinedWeight(e[2], getTermFrequency(doc, e[1]), t1._K1, t1._b,
                            getLength(doc), Len(t1._documents), totalLength)>>)
      Vectors(t1, totalLength) ==
        [t1 EXCEPT !._documentVectors =
           Some(ArrayMap(t1._documents,
                         LAMBDA e : <<e[1], Vector(t1, DocCached(e[2]), totalLength)>>))]
      WithTotal(t1) == Vectors(t1, TotalLength(t1._documents))
  IN WithTotal(WithWeights(this))

WithVectors(this) ==
  IF this._documentVectors = Null THEN _calculateDocumentVectors(this) ELSE this

\* ----------------------------------------------- public Corpus operations
\* Each yields [this |-> the corpus afterwards, kind |-> "return" or
\* "throw", value |-> the value returned or the name of the error].
Return(this, v) == [this |-> this, kind |-> "return", value |-> v]
Throw(this, e) == [this |-> this, kind |-> "throw", value |-> e]

\* an optional argument: Null is undefined, which takes the default
ArgOr(arg, default) == IF arg = Null THEN default ELSE arg[1]

\* Corpus.getTerms
getTerms(this) ==
  LET Terms(t1) == Return(t1, MapKeys(t1._collectionFrequencies[1]))
  IN Terms(WithFrequencies(this))

\* Corpus.getCollectionFrequency
getCollectionFrequency(this, term) ==
  LET Frequency(t1, cfs) == Return(t1, IF MapHas(cfs, term) THEN MapGet(cfs, term) ELSE 0)
      Look(t1) == Frequency(t1, t1._collectionFrequencies[1])
  IN Look(WithFrequencies(this))

\* Corpus.getCollectionFrequencyWeight: null is Null, a number n is Some(n)
getCollectionFrequencyWeight(this, term) ==
  LET Weight(t1, cfws) ==
        Return(t1, IF MapHas(cfws, term) THEN Some(MapGet(cfws, term)) ELSE Null)
      Look(t1) == Weight(t1, t1._collectionFrequencyWeights[1])
  IN Look(WithWeights(this))

\* Corpus.getDocumentVector: undefined is Null, a Map m is Some(m)
getDocumentVector(this, identifier) ==
  LET VectorAt(t1, vs) ==
        Return(t1, IF MapHas(vs, identifier) THEN Some(MapGet(vs, identifier)) ELSE Null)
      Look(t1) == VectorAt(t1, t1._documentVectors[1])
  IN Look(WithVectors(this))

\* as if zero weights were kept
IsNotNegative(d) == d[2] >= 0

\* the filter callback d => d[1] > 0
IsPositive(d) == d[2] > 0

\* as if the vector were filtered and sorted in place, in the cache
getTopTermsForDocumentInPlace(this, identifier, maxTerms) ==
  LET Sorted(r, entries) ==
        Return([r.this EXCEPT !._documentVectors =
                  Some(MapSet(r.this._documentVectors[1], identifier, entries))],
               Slice(entries, ArgOr(maxTerms, DefaultTopTerms)))
      Top(r) ==
        IF r.value = Null THEN Return(r.this, <<>>)
        ELSE Sorted(r, SortDesc(Filter(r.value[1], IsPositive)))
  IN Top(getDocumentVector(this, identifier))

\* Corpus.getTopTermsForDocument
getTopTermsForDocument(this, identifier, maxTerms) ==
  LET Top(r) ==
        IF r.value = Null THEN Return(r.this, <<>>)
        ELSE Return(r.this,
                    Slice(SortDesc(Filter(r.value[1], IsPositive)),
                          ArgOr(maxTerms, DefaultTopTerms)))
  IN Top(getDocumentVector(this, identifier))

\* as if the second vector were left out of the score
CommonScoreFirstOnly(cw1, cw2) == cw1

\* as if the two weights were added
CommonScoreSum(cw1, cw2) == cw1 + cw2

\* the map callback of getCommonTerms: cw * vector2.get(term)
CommonScore(cw1, cw2) == cw1 * cw2

\* Corpus.getCommonTerms; vector1.entries() and vector2.get(term) raise a
\* TypeError on an undefined vector
getCommonTerms(this, identifier1, identifier2, maxTerms) ==
  LET Scored(vector1, vector2) ==
        ArrayMap(vector1[1], LAMBDA e :
          <<e[1], CommonScore(e[2], MapGet(vector2[1], e[1]))>>)
      Common(t2, vector1, vector2) ==
        IF vector1 = Null THEN Throw(t2, "TypeError")
        ELSE IF vector2 = Null /\ vector1[1] # <<>> THEN Throw(t2, "TypeError")
        ELSE IF vector1[1] = <<>> THEN Return(t2, <<>>)
        ELSE Return(t2,
                    Slice(SortDesc(Filter(Scored(vector1, vector2), IsPositive)),
                          ArgOr(maxTerms, DefaultCommonTerms)))
      Second(r1, r2) == Common(r2.this, r1.value, r2.value)
      First(r1) == Second(r1, getDocumentVector(r1.this, identifier2))
  IN First(getDocumentVector(this, identifier1))

\* A query value: [type |-> typeof query, str |-> its characters when it
\* is a string]
\* as if the empty string were let through
QueryGuardAnyString(query) == query.type = "string"

\* the guard of _queryToUniqueTerms
QueryGuard(query) == query.type = "string" /\ Len(query.str) > 0

\* Corpus._queryToUniqueTerms: threw when the TextDocument constructor did
_queryToUniqueTerms(query) ==
  LET Unique(td) ==
        IF td.threw THEN [threw |-> TRUE, terms |-> <<>>]
        ELSE [threw |-> FALSE, terms |-> getUniqueTerms(DocCached(td.doc))]
  IN IF QueryGuard(query) THEN Unique(TextDocument(query.str))
     ELSE [threw |-> FALSE, terms |-> <<>>]

\* as if the score were assigned instead of added to
QueryScoreLastWeight(vector, terms) ==
  LET RECURSIVE Go(_, _)
      Go(i, score) ==
        IF i > Len(terms) THEN score
        ELSE IF MapHas(vector, terms[i]) /\ MapGet(vector, terms[i]) # 0
             THEN Go(i + 1, MapGet(vector, terms[i]))
             ELSE Go(i + 1, score)
  IN Go(1, 0)

\* the forEach of getResultsForQuery: add each truthy weight
QueryScore(vector, terms) ==
  LET RECURSIVE Go(_, _)
      Go(i, score) ==
        IF i > Len(terms) THEN score
        ELSE IF MapHas(vector, terms[i]) /\ MapGet(vector, terms[i]) # 0
             THEN Go(i + 1, score + MapGet(vector, terms[i]))
             ELSE Go(i + 1, score)
  IN Go(1, 0)

\* Corpus.getResultsForQuery
getResultsForQuery(this, query) ==
  LET Scores(t1, terms) ==
        ArrayMap(MapKeys(t1._documents), LAMBDA d :
          <<d, QueryScore(MapGet(t1._documentVectors[1], d), terms)>>)
      Results(q, t1) ==
        IF q.threw THEN Throw(this, "TypeError")
        ELSE IF Len(q.terms) = 0 THEN Return(this, <<>>)
        ELSE IF this._documents = <<>> THEN Return(this, <<>>)
        ELSE Return(t1, SortDesc(Filter(Scores(t1, q.terms), IsPositive)))
  IN Results(_queryToUniqueTerms(query), WithVectors(this))

\* Corpus.getDocument for an identifier of the corpus: the object stored
\* under it, at its address
getDocument(this, refs, identifier) ==
  DocumentValue(MapGet(refs, identifier), MapGet(this._documents, identifier))

\* corpus.getDocument(identifier).getTermFrequency(term) and its siblings,
\* for an identifier of the corpus
DocumentAt(this, identifier) == DocCached(MapGet(this._documents, identifier))
WithDocument(this, identifier, doc) ==
  [this EXCEPT !._documents = MapSet(this._documents, identifier, doc)]

DocGetTermFrequency(this, identifier, term) ==
  LET Frequency(doc) ==
        Return(WithDocument(this, identifier, doc), getTermFrequency(doc, term))
  IN Frequency(DocumentAt(this, identifier))

DocGetUniqueTerms(this, identifier) ==
  LET Unique(doc) == Return(WithDocument(this, identifier, doc), getUniqueTerms(doc))
  IN Unique(DocumentAt(this, identifier))

\* as if the last identifier were left out
getDocumentIdentifiersButLast(this) ==
  SubSeq(MapKeys(this._documents), 1, Len(this._documents) - 1)

\* Corpus.getDocumentIdentifiers
getDocumentIdentifiers(this) == MapKeys(this._documents)

\* ------------------------------------------------------------ Similarity
\* Math.sqrt on the integers: the largest r with r * r <= n
IntSqrt(n) ==
  LET RECURSIVE Go(_, _)
      Half(lo, hi, mid) == IF mid * mid <= n THEN Go(mid, hi) ELSE Go(lo, mid - 1)
      Go(lo, hi) == IF lo = hi THEN lo ELSE Half(lo, hi, (lo + hi + 1) \div 2)
  IN Go(0, Min(n, 46340))

\* the dot product of two vectors over the terms of the first
DotProduct(vectorA, vectorB) ==
  LET RECURSIVE Go(_)
      Go(i) ==
        IF i = 0 THEN 0
        ELSE Go(i - 1)
               + vectorA[i][2] * (IF MapHas(vectorB, vectorA[i][1])
                                  THEN MapGet(vectorB, vectorA[i][1]) ELSE 0)
  IN Go(Len(vectorA))

\* Similarity.cosineSimilarity in thousandths: dot(A, B) / (|A| * |B|),
\* defined as 0 when either norm is 0
cosineSimilarity(vectorA, vectorB) ==
  LET Cosine(dot, normA, normB) ==
        IF normA = 0 \/ normB = 0 THEN 0
        ELSE ((dot \div normA) * 1000) \div normB
  IN Cosine(DotProduct(vectorA, vectorB),
            IntSqrt(DotProduct(vectorA, vectorA)),
            IntSqrt(DotProduct(vectorB, vectorB)))

\* the distance matrix over the identifiers, in thousandths: a zero
\* diagonal and matrix[j][i] = matrix[i][j] = 1 - cosineSimilarity for i < j
DistanceMatrix(identifiers, vectors) ==
  LET Distance(i, j) ==
        1000 - cosineSimilarity(MapGet(vectors, identifiers[i]),
                                MapGet(vectors, identifiers[j]))
  IN [i \in 1..Len(identifiers) |->
       [j \in 1..Len(identifiers) |->
          IF i = j THEN 0
          ELSE IF i < j THEN Distance(i, j) ELSE Distance(j, i)]]

\* Similarity.getDistanceMatrix on a Similarity that refers to the corpus:
\* each identifier's vector is read through getDocumentVector, which fills
\* the caches of the corpus
getDistanceMatrix(this) ==
  LET Matrix(t1, identifiers) ==
        Return(t1, [identifiers |-> identifiers,
                    matrix |-> IF identifiers = <<>> THEN <<>>
                               ELSE DistanceMatrix(identifiers, t1._documentVectors[1])])
      Read(identifiers) ==
        Matrix(IF identifiers = <<>> THEN this ELSE WithVectors(this), identifiers)
  IN Read(getDocumentIdentifiers(this))

\* ------------------------------------------------------------ input pools
ab == <<"a", "b">>
cd == <<"c", "d">>
ef == <<"e", "f">>
zz == <<"z", "z">>

\* "ab a 1cd", "Ab ab ef", "1"
TextPool ==
  { <<"a", "b", " ", "a", " ", "1", "c", "d">>,
    <<"A", "b", " ", "a", "b", " ", "e", "f">>,
    <<"1">> }

AllNames == <<"d1", "d2", "d3", "d4">>
NamesPool == {SubSeq(AllNames, 1, k) : k \in 0..MaxDocs}
TextsPool == UNION {[1..k -> TextPool] : k \in 0..MaxDocs}
\* no options at all, and one with every option set (b = 1.0), its
\* stopwords the exported instance
NoOptions == [k \in {} |-> 0]
\* the terms of the exported instance defaultStopwords, cut down to one
DefaultStopwordList == <<cd>>
OptionsPool ==
  { NoOptions, [stopwords |-> StopwordsValue("defaultStopwords"), K1 |-> 1, b |-> 4] }
\* for fromKvps: no options, and an array of stopwords with K1 = 0, b = 0
KvpsOptionsPool == { NoOptions, [stopwords |-> ArrayValue(<<ab>>), K1 |-> 0, b |-> 0] }
\* the argument of with
AdditionalPool == { <<ab>>, <<cd, ef>> }

TermPool == {ab, cd, ef, zz}
\* maxTerms of getTopTermsForDocument: left out, 0 and 1
TopTermsPool == {Null, Some(0), Some(1)}
\* maxTerms of getCommonTerms: left out, and 1
CommonTermsPool == {Null, Some(1)}

\* Document objects the caller holds: one fresh, one whose frequencies were
\* already asked for
GivenFresh == DocumentValue(<<"given", 1>>, Document(<<ab, ef, ab>>))
GivenCached == DocumentValue(<<"given", 2>>, DocCached(Document(<<cd, ab>>)))
\* key-value pairs for fromKvps: a text with no term ("a") alone, a
\* Document alone, a Document before a text, a text that cannot be built
\* before a Document, and a text before a Document
KvpsPool ==
  { << <<"d1", StringValue(<<"a">>)>> >>,
    << <<"d1", GivenFresh>> >>,
    << <<"d1", GivenCached>>, <<"d2", StringValue(<<"c", "d", " ", "a">>)>> >>,
    << <<"d1", StringValue(<<"1">>)>>, <<"d2", GivenFresh>> >>,
    << <<"d1", StringValue(ab)>>, <<"d2", GivenCached>> >> }

Str(chars) == StringValue(chars)
NonString(type) == [type |-> type, str |-> <<>>]
\* '', 2, undefined, "ab", "ab Ab", "ef zz", "cd ab", "a", "1"
QueryPool ==
  { Str(<<>>), NonString("number"), NonString("undefined"),
    Str(ab), Str(<<"a", "b", " ", "A", "b">>), Str(<<"e", "f", " ", "z", "z">>),
    Str(<<"c", "d", " ", "a", "b">>), Str(<<"a">>), Str(<<"1">>) }

\* ------------------------------------------------------------------ state
VARIABLES
  pc,      \* "start" before Corpus.from is called, "ready" once it returned
           \* a Corpus, "failed" once it raised
  corpus,  \* Null, or Some(the Corpus the caller holds)
  built,   \* the number of Documents the construction built
  refs,    \* the address of the Document stored under each identifier
  defaultStopwords,  \* the Set of the exported Stopwords instance
  stopwordsRef,      \* which Stopwords object the corpus holds:
                     \* "defaultStopwords", or "new" for one of its own
  call,    \* the last call: [op |-> name, args |-> arguments]
  result   \* its outcome: [kind |-> "return" or "throw", value |-> ...]

vars == <<pc, corpus, built, refs, defaultStopwords, stopwordsRef, call, result>>

Init ==
  /\ pc = "start"
  /\ corpus = Null
  /\ built = 0
  /\ refs = <<>>
  /\ defaultStopwords = Stopwords(DefaultStopwordList)
  /\ stopwordsRef = "none"
  /\ call = [op |-> "none", args |-> <<>>]
  /\ result = [kind |-> "none", value |-> <<>>]

\* the outcome of the constructor once the generator of fromKvps has run
Constructed(options, docs) ==
  IF docs.threw
  THEN /\ pc' = "failed"
       /\ result' = [kind |-> "throw", value |-> "TypeError"]
       /\ built' = docs.built
       /\ UNCHANGED <<corpus, refs, defaultStopwords, stopwordsRef>>
  ELSE /\ pc' = "ready"
       /\ result' = [kind |-> "return", value |-> "Corpus"]
       /\ built' = docs.built
       /\ refs' = docs.refs
       /\ stopwordsRef' =
            StopwordsFrom((options @@ defaultOptions).stopwords, defaultStopwords).ref
       /\ corpus' = Some(NewCorpus(docs.documents, options, defaultStopwords))
       /\ UNCHANGED defaultStopwords

\* the outcome of Corpus.from once the documents are built (or not)
Construct(names, texts, options, docs) ==
  /\ call' = [op |-> "Corpus.from", args |-> <<names, texts, options>>]
  /\ IF FromLengthCheck(names, texts)
     THEN /\ pc' = "failed"
          /\ result' = [kind |-> "throw", value |-> "Error"]
          /\ UNCHANGED <<corpus, built, refs, defaultStopwords, stopwordsRef>>
     ELSE Constructed(options, docs)

\* Corpus.from(names, texts, options), with fromKvps and the constructor
CorpusFrom ==
  /\ pc = "start"
  /\ \E names \in NamesPool, texts \in TextsPool, options \in OptionsPool :
       Construct(names, texts, options, BuildDocuments(FromToKvps(names, texts)))

\* Corpus.fromKvps(documentKvps, options), called directly
CorpusFromKvps ==
  /\ pc = "start"
  /\ \E kvps \in KvpsPool, options \in KvpsOptionsPool :
       /\ call' = [op |-> "Corpus.fromKvps", args |-> <<kvps, options>>]
       /\ Constructed(options, BuildDocuments(kvps))

\* the common frame of a call on the corpus
Called(op, args, r) ==
  /\ pc' = "ready"
  /\ corpus' = Some(r.this)
  /\ call' = [op |-> op, args |-> args]
  /\ result' = [kind |-> r.kind, value |-> r.value]
  /\ UNCHANGED <<built, refs, defaultStopwords, stopwordsRef>>

This == corpus[1]
KnownIds == {This._documents[i][1] : i \in 1..Len(This._documents)}
\* the identifiers of the corpus and one that is not
IdPool == KnownIds \cup {"dx"}

GetTerms ==
  /\ pc = "ready"
  /\ Called("getTerms", <<>>, getTerms(This))

GetCollectionFrequency ==
  /\ pc = "ready"
  /\ \E t \in TermPool :
       Called("getCollectionFrequency", <<t>>, getCollectionFrequency(This, t))

GetCollectionFrequencyWeight ==
  /\ pc = "ready"
  /\ \E t \in TermPool :
       Called("getCollectionFrequencyWeight", <<t>>, getCollectionFrequencyWeight(This, t))

GetDocumentVector ==
  /\ pc = "ready"
  /\ \E id \in IdPool :
       Called("getDocumentVector", <<id>>, getDocumentVector(This, id))

GetTopTermsForDocument ==
  /\ pc = "ready"
  /\ \E id \in IdPool, maxTerms \in TopTermsPool :
       Called("getTopTermsForDocument", <<id, maxTerms>>,
              getTopTermsForDocument(This, id, maxTerms))

GetCommonTerms ==
  /\ pc = "ready"
  /\ \E id1 \in IdPool, id2 \in IdPool, maxTerms \in CommonTermsPool :
       Called("getCommonTerms", <<id1, id2, maxTerms>>,
              getCommonTerms(This, id1, id2, maxTerms))

GetResultsForQuery ==
  /\ pc = "ready"
  /\ \E query \in QueryPool :
       Called("getResultsForQuery", <<query>>, getResultsForQuery(This, query))

DocumentGetTermFrequency ==
  /\ pc = "ready"
  /\ \E id \in KnownIds, t \in TermPool :
       Called("Document.getTermFrequency", <<id, t>>, DocGetTermFrequency(This, id, t))

DocumentGetUniqueTerms ==
  /\ pc = "ready"
  /\ \E id \in KnownIds :
       Called("Document.getUniqueTerms", <<id>>, DocGetUniqueTerms(This, id))

\* the effect of receiver.with(additional) once with has run: the receiver
\* is the exported instance or the object corpus.getStopwords() returns,
\* which may be one and the same object
Extended(receiver, additional, r) ==
  /\ call' = [op |-> "Stopwords.with", args |-> <<receiver, additional>>]
  /\ result' = [kind |-> "return", value |-> r.value]
  /\ defaultStopwords' =
       IF receiver = "defaultStopwords" \/ stopwordsRef = "defaultStopwords"
       THEN r.this ELSE defaultStopwords
  /\ corpus' =
       IF pc = "ready" /\ (receiver = "corpus" \/ stopwordsRef = "defaultStopwords")
       THEN Some([This EXCEPT !._stopwords = r.this]) ELSE corpus
  /\ UNCHANGED <<pc, built, refs, stopwordsRef>>

\* defaultStopwords.with(additional), before or after a Corpus was built
DefaultStopwordsWith ==
  /\ pc \in {"start", "ready"}
  /\ \E additional \in AdditionalPool :
       Extended("defaultStopwords", additional, with(defaultStopwords, additional))

\* corpus.getStopwords().with(additional)
CorpusStopwordsWith ==
  /\ pc = "ready"
  /\ \E additional \in AdditionalPool :
       Extended("corpus", additional, with(This._stopwords, additional))

SimilarityGetDistanceMatrix ==
  /\ pc = "ready"
  /\ Called("Similarity.getDistanceMatrix", <<>>, getDistanceMatrix(This))

Next ==
  \/ CorpusFrom
  \/ CorpusFromKvps
  \/ GetTerms
  \/ GetCollectionFrequency
  \/ GetCollectionFrequencyWeight
  \/ GetDocumentVector
  \/ GetTopTermsForDocument
  \/ GetCommonTerms
  \/ GetResultsForQuery
  \/ DocumentGetTermFrequency
  \/ DocumentGetUniqueTerms
  \/ SimilarityGetDistanceMatrix
  \/ DefaultStopwordsWith
  \/ CorpusStopwordsWith

Spec == Init /\ [][Next]_vars

\* ------------------------------------------- what the claims speak about
Range(seq) == {seq[i] : i \in 1..Len(seq)}
Keys(pairs) == {pairs[i][1] : i \in 1..Len(pairs)}
NoDuplicateKeys(pairs) ==
  \A i \in 1..Len(pairs), j \in 1..Len(pairs) : pairs[i][1] = pairs[j][1] => i = j
NonIncreasing(pairs) == \A i \in 1..Len(pairs) - 1 : pairs[i][2] >= pairs[i + 1][2]

\* the documents of the corpus, by position in the document map
Docs == This._documents
DocOf(id) == MapGet(Docs, id)
\* the distinct tokens of a document, and how often a token occurs in it
Words(doc) == Range(doc._words)
Occurrences(doc, t) == Cardinality({i \in 1..Len(doc._words) : doc._words[i] = t})
\* the documents whose tokens contain t
DocsContaining(t) == {i \in 1..Len(Docs) : t \in Words(Docs[i][2])}
\* the non-stopword terms that occur in some document
Vocabulary == {t \in UNION {Words(Docs[i][2]) : i \in 1..Len(Docs)} : t \notin This._stopwords}

SumOver(S, F(_)) ==
  LET RECURSIVE Go(_)
      Go(T) == IF T = {} THEN 0
               ELSE LET x == CHOOSE y \in T : TRUE IN F(x) + Go(T \ {x})
  IN Go(S)

\* ------------------------------------------------------------------ claims

\* C1: Corpus.from called with names.length different from texts.length
\* raises an Error before any Document or Corpus is built: the caller holds
\* no Corpus afterwards.
C1_MismatchRaisesBeforeBuilding ==
  (call.op = "Corpus.from" /\ Len(call.args[1]) # Len(call.args[2]))
    => /\ result.kind = "throw"
       /\ result.value = "Error"
       /\ pc = "failed"
       /\ corpus = Null
       /\ built = 0

\* C1 witness: from was called with fewer names than texts, each text one
\* that a TextDocument can be built from, and it raised.
C1_Witness ==
  /\ call.op = "Corpus.from"
  /\ Len(call.args[1]) < Len(call.args[2])
  /\ \A i \in 1..Len(call.args[2]) : ~TextDocument(call.args[2][i]).threw
  /\ result.kind = "throw"

\* C2: getCollectionFrequency(t) is the number of documents containing t
\* when t is not a stopword, and 0 when t is a stopword or occurs nowhere;
\* getTerms() lists exactly the terms with count >= 1, each once; and
\* Document.getTermFrequency still counts stopwords.
C2_CollectionFrequencyCountsDocuments ==
  /\ call.op = "getCollectionFrequency" =>
       /\ result.kind = "return"
       /\ result.value = IF call.args[1] \in This._stopwords THEN 0
                         ELSE Cardinality(DocsContaining(call.args[1]))
  /\ call.op = "getTerms" =>
       /\ result.kind = "return"
       /\ Range(result.value) = Vocabulary
       /\ \A i \in 1..Len(result.value), j \in 1..Len(result.value) :
            result.value[i] = result.value[j] => i = j
       /\ \A t \in TermPool :
            (t \in Range(result.value)) <=> getCollectionFrequency(This, t).value >= 1
  /\ call.op = "Document.getTermFrequency" =>
       result.value = Occurrences(DocOf(call.args[1]), call.args[2])

\* C2 witness: the collection frequency of a stopword that two documents
\* contain was asked, and is 0.
C2_Witness ==
  /\ call.op = "getCollectionFrequency"
  /\ call.args[1] \in This._stopwords
  /\ Cardinality(DocsContaining(call.args[1])) >= 2
  /\ result.value = 0

\* C3: getCollectionFrequencyWeight(t) is null exactly when t is not in
\* getTerms() (a stopword, or in no document); for t in getTerms() it is a
\* number > 0, also when t occurs in every document; it is non-null iff
\* getCollectionFrequency(t) >= 1.
C3_WeightNullOrPositive ==
  call.op = "getCollectionFrequencyWeight" =>
    LET t == call.args[1]
        inTerms == t \in Range(getTerms(This).value)
    IN /\ result.kind = "return"
       /\ (result.value = Null) <=> ~inTerms
       /\ inTerms <=> t \in Vocabulary
       /\ inTerms => result.value[1] > 0
       /\ (result.value # Null) <=> getCollectionFrequency(This, t).value >= 1

\* C3 witness: the weight of a term that occurs in every one of at least
\* two documents was asked, and is a positive number.
C3_Witness ==
  /\ call.op = "getCollectionFrequencyWeight"
  /\ Len(Docs) >= 2
  /\ call.args[1] \in Vocabulary
  /\ Cardinality(DocsContaining(call.args[1])) = Len(Docs)
  /\ result.value # Null
  /\ result.value[1] > 0

\* C4: among vocabulary terms a smaller collection frequency gives a
\* strictly larger collection frequency weight and equal frequencies give
\* equal weights; the weight is ln(N + 1) - ln(cf).
C4_WeightStrictlyDecreasing ==
  (call.op = "getCollectionFrequencyWeight" /\ call.args[1] \in Vocabulary) =>
    LET t1 == call.args[1]
        cf(t) == Cardinality(DocsContaining(t))
        w(t) == getCollectionFrequencyWeight(This, t).value[1]
    IN /\ result.value[1] = MathLog(Len(Docs) + 1) - MathLog(cf(t1))
       /\ \A t2 \in Vocabulary :
            /\ cf(t1) < cf(t2) => result.value[1] > w(t2)
            /\ cf(t1) > cf(t2) => result.value[1] < w(t2)
            /\ cf(t1) = cf(t2) => result.value[1] = w(t2)

\* C4 witness: the weight of a term was asked while another vocabulary term
\* occurs in more documents, and the weight asked is the larger one.
C4_Witness ==
  /\ call.op = "getCollectionFrequencyWeight"
  /\ call.args[1] \in Vocabulary
  /\ \E t2 \in Vocabulary :
       /\ Cardinality(DocsContaining(call.args[1])) < Cardinality(DocsContaining(t2))
       /\ result.value[1] > getCollectionFrequencyWeight(This, t2).value[1]

\* C5: for every Document whose frequency map is cached, the term
\* frequencies of its unique terms add up to its length, a unique term is
\* listed once, and a term that is not among its tokens has frequency 0;
\* so do the values the Document calls return.
C5_TermFrequenciesSumToLength ==
  /\ pc = "ready" =>
       \A i \in 1..Len(Docs) :
         LET doc == Docs[i][2]
         IN doc._termFrequencies # Null =>
              /\ SumOver(Range(getUniqueTerms(doc)), LAMBDA t : getTermFrequency(doc, t))
                   = getLength(doc)
              /\ Cardinality(Range(getUniqueTerms(doc))) = Len(getUniqueTerms(doc))
              /\ \A t \in TermPool : t \notin Words(doc) => getTermFrequency(doc, t) = 0
  /\ (call.op = "Document.getTermFrequency"
        /\ call.args[2] \notin Words(DocOf(call.args[1]))) => result.value = 0
  /\ call.op = "Document.getUniqueTerms" =>
       /\ Range(result.value) = Words(DocOf(call.args[1]))
       /\ DocOf(call.args[1])._termFrequencies # Null

\* C5 witness: the unique terms of a Document with a repeated token were
\* asked, and they are fewer than its length.
C5_Witness ==
  /\ call.op = "Document.getUniqueTerms"
  /\ Len(result.value) >= 2
  /\ Len(result.value) < getLength(DocOf(call.args[1]))

\* the weight of term t in the vector of document id: 0 when t is no key
VectorOf(id) == getDocumentVector(This, id).value[1]
VectorWeight(id, t) == IF MapHas(VectorOf(id), t) THEN MapGet(VectorOf(id), t) ELSE 0
\* the distinct tokens of a query string
QueryTokens(query) == Words(TextDocument(query.str).doc)
\* the non-stopword terms of document id
TermsOf(id) == Words(DocOf(id)) \ This._stopwords
IsTextQuery(query) == query.type = "string" /\ Len(query.str) > 0

\* C6: for a string q with at least one token, getResultsForQuery(q)
\* returns one (identifier, score) pair for exactly the documents that
\* contain a non-stopword token of q, none twice, in non-increasing score
\* order; a score is the sum over the distinct tokens of q of the document's
\* vector weight; a query with the same tokens repeated gives the same result.
C6_QueryResults ==
  (call.op = "getResultsForQuery" /\ IsTextQuery(call.args[1])
     /\ QueryTokens(call.args[1]) # {}) =>
    LET tokens == QueryTokens(call.args[1])
        res == result.value
    IN /\ result.kind = "return"
       /\ Keys(res) = {id \in KnownIds : tokens \cap TermsOf(id) # {}}
       /\ NoDuplicateKeys(res)
       /\ NonIncreasing(res)
       /\ \A i \in 1..Len(res) :
            res[i][2] = SumOver(tokens, LAMBDA t : VectorWeight(res[i][1], t))
       /\ \A i \in 1..Len(res) :
            res[i][2] = SumOver(tokens \cap TermsOf(res[i][1]),
                                LAMBDA t : VectorWeight(res[i][1], t))
       /\ \A q2 \in QueryPool :
            (IsTextQuery(q2) /\ QueryTokens(q2) = tokens)
              => getResultsForQuery(This, q2).value = res

\* C6 witness: a query with a stopword and another token was asked, a
\* document that came back contains the stopword too, and two documents
\* came back with different scores.
C6_Witness ==
  /\ call.op = "getResultsForQuery"
  /\ IsTextQuery(call.args[1])
  /\ Len(result.value) = 2
  /\ \E i \in 1..2 :
       QueryTokens(call.args[1]) \cap This._stopwords \cap Words(DocOf(result.value[i][1])) # {}
  /\ result.value[1][2] > result.value[2][2]

\* C7: for a known identifier and maxTerms >= 0, getTopTermsForDocument
\* returns entries of the document's vector with weight > 0, no term twice,
\* in non-increasing weight order, no omitted term weighing more than a
\* returned one, and min(maxTerms, number of distinct non-stopword terms of
\* the document) of them.
C7_TopTerms ==
  (call.op = "getTopTermsForDocument" /\ call.args[1] \in KnownIds) =>
    LET id == call.args[1]
        maxTerms == ArgOr(call.args[2], DefaultTopTerms)
        res == result.value
    IN /\ result.kind = "return"
       /\ \A i \in 1..Len(res) :
            /\ MapHas(VectorOf(id), res[i][1])
            /\ res[i][2] = MapGet(VectorOf(id), res[i][1])
            /\ res[i][2] > 0
       /\ NoDuplicateKeys(res)
       /\ NonIncreasing(res)
       /\ \A t \in Keys(VectorOf(id)) \ Keys(res) :
            \A i \in 1..Len(res) : VectorWeight(id, t) <= res[i][2]
       /\ Len(res) = Min(maxTerms, Cardinality(TermsOf(id)))
       /\ Keys(res) \subseteq TermsOf(id)

\* C7 witness: the single top term of a document with two non-stopword
\* terms of different weight was asked, and the heavier one came back.
C7_Witness ==
  /\ call.op = "getTopTermsForDocument"
  /\ call.args[1] \in KnownIds
  /\ call.args[2] = Some(1)
  /\ Cardinality(TermsOf(call.args[1])) = 2
  /\ Len(result.value) = 1
  /\ \E t \in TermsOf(call.args[1]) : VectorWeight(call.args[1], t) < result.value[1][2]

\* the non-stopword terms two documents share
CommonOf(id1, id2) == TermsOf(id1) \cap TermsOf(id2)

\* C8: for two known identifiers, getCommonTerms returns (term, score) pairs
\* whose terms are non-stopword terms of both documents - all of them when
\* maxTerms does not truncate - each scored by the product of the term's two
\* vector weights, in non-increasing score order, at most maxTerms of them,
\* and the ones left out score no more than the ones returned.
C8_CommonTerms ==
  (call.op = "getCommonTerms" /\ call.args[1] \in KnownIds /\ call.args[2] \in KnownIds) =>
    LET id1 == call.args[1]
        id2 == call.args[2]
        maxTerms == ArgOr(call.args[3], DefaultCommonTerms)
        res == result.value
    IN /\ result.kind = "return"
       /\ Keys(res) \subseteq CommonOf(id1, id2)
       /\ maxTerms >= Cardinality(CommonOf(id1, id2)) => Keys(res) = CommonOf(id1, id2)
       /\ NoDuplicateKeys(res)
       /\ \A i \in 1..Len(res) :
            res[i][2] = VectorWeight(id1, res[i][1]) * VectorWeight(id2, res[i][1])
       /\ NonIncreasing(res)
       /\ Len(res) = Min(maxTerms, Cardinality(CommonOf(id1, id2)))
       /\ \A t \in CommonOf(id1, id2) \ Keys(res) :
            \A i \in 1..Len(res) :
              VectorWeight(id1, t) * VectorWeight(id2, t) <= res[i][2]

\* C8 witness: the common terms of two different documents were asked; one
\* term is shared and came back, another occurs in only one of the two.
C8_Witness ==
  /\ call.op = "getCommonTerms"
  /\ call.args[1] \in KnownIds
  /\ call.args[2] \in KnownIds
  /\ call.args[1] # call.args[2]
  /\ TermsOf(call.args[1]) \ TermsOf(call.args[2]) # {}
  /\ TermsOf(call.args[2]) \ TermsOf(call.args[1]) # {}
  /\ Len(result.value) >= 1

\* C9: for two known identifiers and maxTerms at least the vocabulary size,
\* getCommonTerms(a, b) and getCommonTerms(b, a) hold the same set of
\* (term, score) pairs.
C9_CommonTermsSymmetric ==
  (call.op = "getCommonTerms" /\ call.args[1] \in KnownIds /\ call.args[2] \in KnownIds
     /\ ArgOr(call.args[3], DefaultCommonTerms) >= Cardinality(Vocabulary)) =>
    /\ result.kind = "return"
    /\ Range(result.value)
         = Range(getCommonTerms(This, call.args[2], call.args[1], call.args[3]).value)

\* C9 witness: the common terms of two documents were asked, and a term
\* came back whose weights in the two documents differ.
C9_Witness ==
  /\ call.op = "getCommonTerms"
  /\ call.args[1] \in KnownIds
  /\ call.args[2] \in KnownIds
  /\ ArgOr(call.args[3], DefaultCommonTerms) >= Cardinality(Vocabulary)
  /\ \E i \in 1..Len(result.value) :
       VectorWeight(call.args[1], result.value[i][1])
         # VectorWeight(call.args[2], result.value[i][1])

\* C10: getResultsForQuery of '' or of a value that is not a string returns
\* an empty array, raises nothing and leaves the corpus, documents and
\* caches, as it was.
C10_EmptyQueryLeavesCorpus ==
  [][(call'.op = "getResultsForQuery" /\ ~IsTextQuery(call'.args[1]))
       => /\ result'.kind = "return"
          /\ result'.value = <<>>
          /\ corpus' = corpus
          /\ pc' = "ready"]_vars

\* C10 witness: a query that is not a string was asked of a corpus with
\* documents whose caches are still empty; nothing came back.
C10_Witness ==
  /\ call.op = "getResultsForQuery"
  /\ call.args[1].type # "string"
  /\ result.kind = "return"
  /\ result.value = <<>>
  /\ Len(Docs) >= 2
  /\ This._documentVectors = Null
  /\ This._collectionFrequencies = Null

\* a query with no term: not a string, or a string in which no run of
\* letters is two or more characters long
ZeroTermQuery(query) ==
  \/ query.type # "string"
  \/ \A w \in Range(MatchLetters(query.str)) : ~KeepWord(w)

\* C11: getResultsForQuery(q) returns an empty array and raises nothing for
\* every query with no term: a value that is not a string, '', a string with
\* no letter at all, or a string of one-letter words only.
C11_ZeroTermQueryReturnsEmpty ==
  (call.op = "getResultsForQuery" /\ ZeroTermQuery(call.args[1]))
    => /\ result.kind = "return"
       /\ result.value = <<>>

\* a text in which no run of letters is two or more characters long
NoTermText(text) == \A w \in Range(MatchLetters(text)) : ~KeepWord(w)

\* C12: Corpus.from called with as many names as texts never raises,
\* whatever the texts; it returns a Corpus in which a text with no term is
\* a Document of length 0.
C12_EqualLengthsNeverRaise ==
  (call.op = "Corpus.from" /\ Len(call.args[1]) = Len(call.args[2]))
    => /\ result.kind = "return"
       /\ pc = "ready"
       /\ corpus # Null
       /\ \A i \in 1..Len(call.args[2]) :
            NoTermText(call.args[2][i])
              => getLength(MapGet(This._documents, call.args[1][i])) = 0

\* C13: a lookup on an identifier that is not in the corpus never raises:
\* getDocumentVector returns undefined, getTopTermsForDocument returns [],
\* and getCommonTerms returns [] when either identifier is unknown.
C13_UnknownIdentifierNeverRaises ==
  /\ (call.op = "getDocumentVector" /\ call.args[1] \notin KnownIds)
       => /\ result.kind = "return"
          /\ result.value = Null
  /\ (call.op = "getTopTermsForDocument" /\ call.args[1] \notin KnownIds)
       => /\ result.kind = "return"
          /\ result.value = <<>>
  /\ (call.op = "getCommonTerms"
        /\ (call.args[1] \notin KnownIds \/ call.args[2] \notin KnownIds))
       => /\ result.kind = "return"
          /\ result.value = <<>>

FromOf(x) == TextDocumentFrom(x, <<"new", 1>>)

\* C15: TextDocument.from(x) returns x itself when x is a Document - so
\* from(from(x)) is from(x) - and constructs a new object only when x is
\* not one; Corpus.fromKvps stores the Documents it is given untouched, and
\* getDocument(id) is the very object that was supplied.
C15_FromKeepsDocuments ==
  (call.op = "Corpus.fromKvps" /\ result.kind = "return") =>
    \A i \in 1..Len(call.args[1]) :
      LET id == call.args[1][i][1]
          x == call.args[1][i][2]
      IN IF x.type = "Document"
         THEN /\ getDocument(This, refs, id) = x
              /\ FromOf(x).made = 0
              /\ DocumentValue(FromOf(x).ref, FromOf(x).doc) = x
              /\ FromOf(DocumentValue(FromOf(x).ref, FromOf(x).doc)) = FromOf(x)
         ELSE /\ getDocument(This, refs, id).ref[1] = "new"
              /\ getDocument(This, refs, id).doc = TextDocument(x.str).doc
              /\ FromOf(x).made = 1

\* C15 witness: fromKvps was given a text and then a Document whose
\* frequencies were already cached; the corpus holds that very Document,
\* cache included, and one Document was constructed.
C15_Witness ==
  /\ call.op = "Corpus.fromKvps"
  /\ result.kind = "return"
  /\ Len(call.args[1]) = 2
  /\ call.args[1][1][2].type = "string"
  /\ call.args[1][2][2].type = "Document"
  /\ call.args[1][2][2].doc._termFrequencies # Null
  /\ getDocument(This, refs, "d2") = call.args[1][2][2]
  /\ built = 1

\* every term a Stopwords object is asked about
StopTerms == TermPool \cup Range(DefaultStopwordList)
\* the stopwords option a construction call was given, defaults merged in
GivenStopwords ==
  (call.args[Len(call.args)] @@ defaultOptions).stopwords

\* the exported instance includes exactly the terms of its list, and so
\* does a Corpus that uses it; a Corpus built with an array of stopwords
\* includes exactly the terms of the array
StopwordsAsBuilt ==
  /\ \A t \in StopTerms :
       includes(defaultStopwords, t) <=> t \in Range(DefaultStopwordList)
  /\ (pc = "ready" /\ stopwordsRef = "defaultStopwords")
       => \A t \in StopTerms :
            includes(This._stopwords, t) <=> t \in Range(DefaultStopwordList)
  /\ (call.op \in {"Corpus.from", "Corpus.fromKvps"} /\ result.kind = "return"
        /\ GivenStopwords.type = "Array")
       => \A t \in StopTerms :
            includes(This._stopwords, t) <=> t \in Range(GivenStopwords.terms)

C17_VectorsAreDense ==
  (call.op = "getDocumentVector" /\ call.args[1] \in KnownIds
     /\ This._K1 >= 0 /\ This._b \in 0..4) =>
    /\ result.kind = "return"
    /\ result.value # Null
    /\ Keys(result.value[1]) = Range(getTerms(This).value)
    /\ NoDuplicateKeys(result.value[1])
    /\ \A id \in KnownIds : Keys(VectorOf(id)) = Keys(result.value[1])
    /\ \A i \in 1..Len(result.value[1]) :
         LET tf == Occurrences(DocOf(call.args[1]), result.value[1][i][1])
             w == result.value[1][i][2]
         IN /\ tf = 0 => w = 0
            /\ tf >= 1 => w > 0

\* C17 witness: with K1 = 0 and b = 0, the vector of a document was asked
\* that lacks a term of the vocabulary which another document contains
\* once; the term is a key of weight 0 here and of weight > 0 there.
C17_Witness ==
  /\ call.op = "getDocumentVector"
  /\ call.args[1] \in KnownIds
  /\ This._K1 = 0
  /\ This._b = 0
  /\ \E i \in 1..Len(result.value[1]), id \in KnownIds :
       /\ result.value[1][i][2] = 0
       /\ Occurrences(DocOf(id), result.value[1][i][1]) = 1
       /\ VectorWeight(id, result.value[1][i][1]) > 0

\* the corpus as the constructor left it: no cache in it or in a document
Fresh(this) ==
  [this EXCEPT !._documents = ArrayMap(this._documents,
                                       LAMBDA e : <<e[1], Document(e[2]._words)>>),
               !._collectionFrequencies = Null,
               !._collectionFrequencyWeights = Null,
               !._documentVectors = Null]
\* the identifiers and tokens of the document map
DocumentMap(this) == ArrayMap(this._documents, LAMBDA e : <<e[1], e[2]._words>>)
\* every cache that is filled is the one a full calculation gives
CachesComplete(this) ==
  LET Same(full) ==
        /\ this._collectionFrequencies \in {Null, full._collectionFrequencies}
        /\ this._collectionFrequencyWeights \in {Null, full._collectionFrequencyWeights}
        /\ this._documentVectors \in {Null, full._documentVectors}
  IN Same(WithVectors(Fresh(this)))

\* C18: a Corpus operation that raises leaves the corpus as it was before
\* the call, and no cache is ever left partly filled.
C18_FailureIsAtomic ==
  [][/\ result'.kind = "throw" => corpus' = corpus
     /\ pc' = "ready" => CachesComplete(This')]_vars

\* the operations C19 calls read operations
ReadOps ==
  {"getTerms", "getCollectionFrequency", "getCollectionFrequencyWeight",
   "getDocumentVector", "getTopTermsForDocument", "getCommonTerms",
   "getResultsForQuery"}
\* the outcome of a read operation on the corpus this
Outcome(r) == <<r.kind, r.value>>
FirstCall(this, op, args) ==
  CASE op = "getTerms" -> Outcome(getTerms(this))
    [] op = "getCollectionFrequency" -> Outcome(getCollectionFrequency(this, args[1]))
    [] op = "getCollectionFrequencyWeight" ->
         Outcome(getCollectionFrequencyWeight(this, args[1]))
    [] op = "getDocumentVector" -> Outcome(getDocumentVector(this, args[1]))
    [] op = "getTopTermsForDocument" ->
         Outcome(getTopTermsForDocument(this, args[1], args[2]))
    [] op = "getCommonTerms" -> Outcome(getCommonTerms(this, args[1], args[2], args[3]))
    [] op = "getResultsForQuery" -> Outcome(getResultsForQuery(this, args[1]))

\* C19: whatever was called before, a read operation leaves the document
\* map (identifiers, objects, tokens) as it is, leaves every cache that was
\* already filled as it is, keeps vectors filled => weights filled =>
\* frequencies filled, and returns what the same call returns as the first
\* call on the corpus freshly built.
C19_ReadsAreRepeatable ==
  [][(pc = "ready" /\ call'.op \in ReadOps) =>
       /\ DocumentMap(This') = DocumentMap(This)
       /\ refs' = refs
       /\ This._collectionFrequencies # Null
            => This'._collectionFrequencies = This._collectionFrequencies
       /\ This._collectionFrequencyWeights # Null
            => This'._collectionFrequencyWeights = This._collectionFrequencyWeights
       /\ This._documentVectors # Null
            => This'._documentVectors = This._documentVectors
       /\ This'._documentVectors # Null => This'._collectionFrequencyWeights # Null
       /\ This'._collectionFrequencyWeights # Null => This'._collectionFrequencies # Null
       /\ Outcome(result') = FirstCall(Fresh(This), call'.op, call'.args)]_vars

\* C19 witness: the document vectors were filled by an earlier call, some
\* document holding a term of weight 0 and one of weight > 0, and now the
\* collection frequency of a term of the vocabulary was asked.
C19_Witness ==
  /\ call.op = "getCollectionFrequency"
  /\ result.value >= 1
  /\ This._documentVectors # Null
  /\ \E id \in KnownIds :
       \E i \in 1..Len(VectorOf(id)), j \in 1..Len(VectorOf(id)) :
         /\ VectorOf(id)[i][2] = 0
         /\ VectorOf(id)[j][2] > 0

====
